---- MODULE Spec2Model ----
(***************************************************************************)
(* Model of the Portia FastAPI service: the singleton PortiaService and its *)
(* tool-scoped client cache (app/services/portia_service.py), the          *)
(* execution wrapper run_query, the request schema (app/schemas/run.py)    *)
(* and the HTTP handlers of app/api/run.py and app/api/health.py.          *)
(*                                                                         *)
(* Handlers are coroutines of one event loop: a handler runs without       *)
(* interruption up to its await, so each is one step; only the runtime's   *)
(* run call is executed elsewhere, on a thread of the service's pool.      *)
(*                                                                         *)
(* Spec recycles NumReqs request slots and covers every input;             *)
(* SpecConcurrent lets NumClients requests arrive once each and overlap;   *)
(* SpecSingleton adds construction and lookup of the service between       *)
(* requests; SpecClock adds the system clock, in milliseconds.             *)
(*                                                                         *)
(* Python values: None is the empty sequence, any other optional value v   *)
(* is <<v>>.  A Python dict is a record [keys, val]: keys is the insertion *)
(* order of the keys, val the mapping.  A Python exception is a record     *)
(* [type, msg, ...].                                                       *)
(***************************************************************************)
EXTENDS Integers, Sequences, FiniteSets, TLC

\* ---- bounds of the model ------------------------------------------------
\* number of request slots: the requests that can be in flight at the same time
NumReqs == 1
\* number of requests of the run in which every request arrives once
NumClients == 2
\* number of requests beyond the size of the worker pool in the run that
\* saturates the pool
NumExtra == 1

\* ---- the environment's value domains ------------------------------------
ToolIds == {"a", "b"}
A1 == [id |-> "a", obj |-> "A1"]
A2 == [id |-> "a", obj |-> "A2"]
B1 == [id |-> "b", obj |-> "B1"]
\* what DefaultToolRegistry(config).get_tools() can return
Registries == {<< >>, <<A1>>, <<B1, A1>>, <<A1, A2>>}
\* The runtime's registry as the specification describes it: the tools of the
\* primary registry, followed by those of the extended registry when the
\* access credential is present.  DefaultTools and ExtendedTools are the tool
\* lists the two registries can hold.
DefaultTools == {<< >>, <<A1>>, <<B1, A1>>}
ExtendedTools == {<< >>, <<A2>>}
RegistryTools(primary, extended, credential) ==
  primary \o (IF credential THEN extended ELSE << >>)
\* the tools lists of POST /run bodies
ToolLists == {<< >>, <<"a">>, <<"a", "b">>, <<"b", "a">>, <<"a", "a">>}
\* the query strings of POST /run bodies: the non-empty ones, and all of them
Queries == {"q"}
QueryStrings == {""} \cup Queries
None == << >>
Some(v) == <<v>>
\* the JSON bodies of POST /run: a field that is absent is None
RunBodies == {[query |-> q, tools |-> t] :
                q \in {None} \cup {Some(x) : x \in QueryStrings},
                t \in {None, Some(<< >>), Some(<<"a">>)}}
\* final_output values of a plan run (None: the run ended without one).
Outputs == {Some("4.0"), None}
ExecFaultMsgs == {"boom"}
\* how the SDK calls of one _get_portia_instance call end
SdkOutcomes == {"ok", "fetch_raises", "ctor_raises"}
CatalogFaultMsg == "registry down"
CtorFaultMsg == "bad config"
\* what time.time() can return, in milliseconds
ClockReadings == {0, 7, 14}
\* settings.application_version
ApplicationVersion == "0.1.0"

\* the request slots of Spec, and the requests of SpecConcurrent
Reqs == 1..NumReqs
Clients == 1..NumClients
Range(s) == {s[i] : i \in DOMAIN s}

\* ---- Python conversions ---------------------------------------------------
\* Iteration order of a set of strings (hash order): one fixed order per process.
HashOrder == <<"b", "a">>
\* list(s) / iteration over a set s
ListOfSet(s) == SelectSeq(HashOrder, LAMBDA t : t \in s)
\* mutation: only the first element of the list is kept
SetOfList_First(l) == IF l = << >> THEN {} ELSE {l[1]}
\* set(l)
SetOfList(l) == Range(l)

VARIABLES _instance, _initialized, _executor, _tools, _portia_instance, registry,
          now, pc, local, start, running, did, execCalls, ran, raised, svcResult,
          resp, lastOk, got

vars == <<_instance, _initialized, _executor, _tools, _portia_instance, registry,
          now, pc, local, start, running, did, execCalls, ran, raised, svcResult,
          resp, lastOk, got>>
\* the class attribute and the instance attributes of PortiaService
svcVars == <<_instance, _initialized, _executor>>

\* ---- app/config.py ---------------------------------------------------------
\* Settings.max_workers as configured for the deployment under study.
max_workers == 2

\* ---- app/exceptions.py -----------------------------------------------------
RECURSIVE JoinComma(_)
\* ', '.join(l), as the sequence of its pieces
JoinComma(l) ==
  IF Len(l) = 0 THEN << >>
  ELSE IF Len(l) = 1 THEN <<l[1]>>
  ELSE <<l[1], ", ">> \o JoinComma(Tail(l))

\* InvalidToolsError.__init__
InvalidToolsError(invalid_tools, available_tools) ==
  [type |-> "InvalidToolsError",
   invalid_tools |-> invalid_tools,
   available_tools |-> available_tools,
   msg |-> <<"The following tools are not available: ">> \o JoinComma(invalid_tools)
           \o <<". Available tools: ">> \o JoinComma(available_tools)]

\* A plain Exception(msg) raised by the SDK
PyException(m) == [type |-> "Exception", msg |-> <<m>>]
\* str(e)
Str(e) == e.msg

\* ---- app/schemas/run.py ----------------------------------------------------
\* mutation: the query has no minimum length
RunRequestValid_AnyQuery(body) == body.query # None /\ body.tools # None

\* RunRequest: query is required and has min_length 1, tools is required
RunRequestValid(body) ==
  /\ body.query # None
  /\ Len(body.query[1]) >= 1
  /\ body.tools # None

\* ---- app/services/portia_service.py ----------------------------------------
\* PortiaService.__new__: the class attribute _instance afterwards, which is
\* the object the call returns; fresh is the identity of a new object
New(instance, fresh) == IF instance = None THEN Some(fresh) ELSE instance

\* mutation: __init__ initialises the object on every construction
ServiceInit_Always(initialized, attrs, pool) ==
  [_initialized |-> TRUE, _tools |-> {}, _portia_instance |-> None,
   _executor |-> Some(pool)]

\* PortiaService.__init__ on an object whose attributes are attrs; initialized
\* is hasattr(self, "_initialized"), pool the identity of a new thread pool
ServiceInit(initialized, attrs, pool) ==
  IF ~initialized
  THEN [_initialized |-> TRUE, _tools |-> {}, _portia_instance |-> None,
        _executor |-> Some(pool)]
  ELSE attrs

\* mutation: run_query calls portia_instance.run itself
ExecutesOn_Loop == "loop"

\* line 97: run_in_executor hands portia_instance.run to a thread of the pool
ExecutesOn == "worker"

\* mutation: the execution uses the client of the cache slot
RunTarget_Shared(portia_instance, shared) == shared

\* line 97: the client whose run method is submitted
RunTarget(portia_instance, shared) == portia_instance

\* round(x, 2) of a time in milliseconds: the nearest multiple of 10, a tie
\* going to the even one
Round2(x) ==
  LET lo == (x \div 10) * 10
      m == x - lo
  IN IF m < 5 THEN lo
     ELSE IF m > 5 THEN lo + 10
     ELSE IF (lo \div 10) % 2 = 0 THEN lo ELSE lo + 10

EmptyDict == [keys |-> << >>, val |-> [x \in {} |-> None]]
\* mutation: a key that is already in the dict keeps its value
DictPut_KeepFirst(d, k, v) ==
  [keys |-> IF k \in Range(d.keys) THEN d.keys ELSE Append(d.keys, k),
   val |-> [x \in (DOMAIN d.val) \cup {k} |->
              IF x \in DOMAIN d.val THEN d.val[x] ELSE v]]

\* d[k] = v on a dict: a new key goes last, an existing key keeps its place
DictPut(d, k, v) ==
  [keys |-> IF k \in Range(d.keys) THEN d.keys ELSE Append(d.keys, k),
   val |-> [x \in (DOMAIN d.val) \cup {k} |-> IF x = k THEN v ELSE d.val[x]]]

RECURSIVE DictOfTools(_)
\* {tool.id: tool for tool in available_tools}
DictOfTools(available_tools) ==
  IF Len(available_tools) = 0 THEN EmptyDict
  ELSE LET n == Len(available_tools)
           tool == available_tools[n]
       IN DictPut(DictOfTools(SubSeq(available_tools, 1, n - 1)), tool.id, tool)

\* PortiaService._get_available_tools_map, given what get_tools() returns
_get_available_tools_map(reg) == DictOfTools(reg)

\* list(d.keys())
KeysList(d) == d.keys
\* set(d.keys())
KeysSet(d) == Range(d.keys)

\* Portia(config, tools=[...], execution_hooks=None): a new object, ref is its identity
Portia(ref, tools) == [ref |-> ref, tools |-> tools]

\* the identifiers of the tools client h was built from
ClientIds(h) == {t.id : t \in Range(h.tools)}

\* mutation: the cache is never used
CacheHit_Never(tools, boundTools, inst) == FALSE

\* mutation: any cached client serves the request, whatever it is bound to
CacheHit_AnyBound(tools, boundTools, inst) == inst # None

\* mutation: a cached client bound to a superset of the request serves it
CacheHit_Superset(tools, boundTools, inst) == tools \subseteq boundTools /\ inst # None

\* line 58: the cached client serves the request
CacheHit(tools, boundTools, inst) == tools = boundTools /\ inst # None

\* mutation: a request for no tools counts as not available
ToolsAvailable_NonEmpty(tools, available_tools_map) ==
  tools # {} /\ tools \subseteq KeysSet(available_tools_map)

\* line 63: every requested tool is in the catalog
ToolsAvailable(tools, available_tools_map) == tools \subseteq KeysSet(available_tools_map)

\* mutation: the client is built from the whole catalog
SelectTools_AllCatalog(tools, available_tools_map) ==
  [i \in DOMAIN available_tools_map.keys |->
     available_tools_map.val[available_tools_map.keys[i]]]

\* line 66: [available_tools_map[tool] for tool in tools]
SelectTools(tools, available_tools_map) ==
  [i \in DOMAIN ListOfSet(tools) |-> available_tools_map.val[ListOfSet(tools)[i]]]

\* mutation: the new client is stored but the bound set is not updated
StoreTools_Stale(tools, boundTools) == boundTools

\* line 69: self._tools after a new client was stored
StoreTools(tools, boundTools) == tools

\* line 74: the exception raised for a request that is not a subset of the catalog
RaiseInvalid(tools, available_tools_map) ==
  InvalidToolsError(ListOfSet(tools), KeysList(available_tools_map))

\* PortiaService._get_portia_instance(tools) in the state (boundTools, inst), with
\* reg what the registry returns; fetchOk / ctorOk say whether get_tools() and
\* Portia() return or raise.  The result names the outcome, the value returned
\* or the exception raised, and the state afterwards.
GetPortiaInstance(tools, boundTools, inst, reg, nextRef, fetchOk, ctorOk) ==
  IF CacheHit(tools, boundTools, inst)
  THEN [fetched |-> FALSE, built |-> FALSE, ret |-> inst, exc |-> None,
        newTools |-> boundTools, newInst |-> inst]
  ELSE IF ~fetchOk
  THEN [fetched |-> TRUE, built |-> FALSE,
        ret |-> None, exc |-> Some(PyException(CatalogFaultMsg)),
        newTools |-> boundTools, newInst |-> inst]
  ELSE LET available_tools_map == _get_available_tools_map(reg)
       IN IF ToolsAvailable(tools, available_tools_map)
          THEN IF ~ctorOk
               THEN [fetched |-> TRUE, built |-> FALSE,
                     ret |-> None, exc |-> Some(PyException(CtorFaultMsg)),
                     newTools |-> boundTools, newInst |-> inst]
               ELSE LET p == Portia(nextRef, SelectTools(tools, available_tools_map))
                    IN [fetched |-> TRUE, built |-> TRUE,
                        ret |-> Some(p), exc |-> None,
                        newTools |-> StoreTools(tools, boundTools),
                        newInst |-> Some(p)]
          ELSE [fetched |-> TRUE, built |-> FALSE, ret |-> None,
                exc |-> Some(RaiseInvalid(tools, available_tools_map)),
                newTools |-> boundTools, newInst |-> inst]

\* the dict run_query returns when the execution returned final_output;
\* start_time and end are the two readings of time.time()
SuccessDict(final_output, start_time, end) ==
  [success |-> TRUE, result |-> final_output,
   execution_time |-> Some(Round2(end - start_time))]
\* mutation: the fault's text is replaced by a fixed message
FailureDict_Generic(e, start_time, end) ==
  [success |-> FALSE, error |-> Some(<<"execution failed">>),
   execution_time |-> Some(end - start_time)]

\* the dict run_query returns when the execution raised e
FailureDict(e, start_time, end) ==
  [success |-> FALSE, error |-> Some(Str(e)),
   execution_time |-> Some(end - start_time)]
\* d.get(k)
DictGet(d, k) == IF k \in DOMAIN d THEN d[k] ELSE None

\* ---- app/api/run.py --------------------------------------------------------
\* RunResponse(success=..., result=result.get("result"), error=result.get("error"))
RunResponse(result) ==
  [status |-> 200,
   body |-> [success |-> result["success"],
             result |-> DictGet(result, "result"),
             error |-> DictGet(result, "error"),
             execution_time |-> DictGet(result, "execution_time")]]

\* the answer to a body that is no RunRequest; the handler is not called
Unprocessable == [status |-> 422, body |-> <<"Unprocessable Entity">>]

\* mutation: InvalidToolsError is not told apart from other faults
RunHandlerExcept_All500(e) ==
  [status |-> 500, body |-> <<"Internal server error: ">> \o Str(e)]

\* mutation: other faults are answered like a failed execution
RunHandlerExcept_Absorb(e) ==
  IF e.type = "InvalidToolsError"
  THEN [status |-> 400,
        body |-> [error |-> "Invalid tools requested",
                  message |-> Str(e),
                  invalid_tools |-> e.invalid_tools,
                  available_tools |-> e.available_tools]]
  ELSE [status |-> 200,
        body |-> [success |-> FALSE, result |-> None, error |-> Some(Str(e)),
                  execution_time |-> None]]

\* the except clauses of the POST /run handler
RunHandlerExcept(e) ==
  IF e.type = "InvalidToolsError"
  THEN [status |-> 400,
        body |-> [error |-> "Invalid tools requested",
                  message |-> Str(e),
                  invalid_tools |-> e.invalid_tools,
                  available_tools |-> e.available_tools]]
  ELSE [status |-> 500, body |-> <<"Internal server error: ">> \o Str(e)]

\* mutation: the identifiers are listed tool by tool, not key by key
ToolsHandler_PerTool(reg, fetchOk) ==
  IF fetchOk
  THEN [status |-> 200, body |-> [i \in DOMAIN reg |-> reg[i].id]]
  ELSE [status |-> 500,
        body |-> <<"Failed to get available tools: ">> \o Str(PyException(CatalogFaultMsg))]

\* the GET /tools handler
ToolsHandler(reg, fetchOk) ==
  IF fetchOk
  THEN [status |-> 200, body |-> KeysList(_get_available_tools_map(reg))]
  ELSE [status |-> 500,
        body |-> <<"Failed to get available tools: ">> \o Str(PyException(CatalogFaultMsg))]

\* ---- app/api/health.py -----------------------------------------------------
\* the GET /health handler
HealthHandler ==
  [status |-> 200, body |-> [status |-> "healthy", version |-> ApplicationVersion]]

\* ---- the state machine -----------------------------------------------------
\* pc[r] is the state of the request currently (or last) served in slot r.  A
\* finished request leaves its response in resp[r] until the next request
\* arrives on the slot.  For that request: local[r] is run_query's local
\* portia_instance and start[r] its start_time while its frame is alive,
\* running[r] the client whose run call is executing and the thread it is
\* executing on, did[r] what its _get_portia_instance call did, ran[r] how the
\* runtime's run call ended, raised[r] the exception service.run_query raised
\* into the handler, svcResult[r] the dict it returned.  lastOk is the tool set
\* and the handle of the most recent _get_portia_instance call that returned,
\* got the most recent construction or get_instance call and what it returned,
\* now the reading of the system clock.
Terminal == {"succeeded", "faulted", "rejected", "error", "listed", "unprocessable",
             "healthy"}
Nothing == [fetched |-> FALSE, built |-> FALSE]

\* the state after the lifespan's PortiaService() call, with request slots reqs
Started(reqs) ==
  /\ _instance = New(None, 1)
  /\ \E a \in {ServiceInit(FALSE, << >>, 1)} :
       /\ _initialized = a._initialized
       /\ _tools = a._tools
       /\ _portia_instance = a._portia_instance
       /\ _executor = a._executor
  /\ now = 0
  /\ pc = [r \in reqs |-> "idle"]
  /\ local = [r \in reqs |-> None]
  /\ start = [r \in reqs |-> None]
  /\ running = [r \in reqs |-> None]
  /\ did = [r \in reqs |-> Nothing]
  /\ execCalls = [r \in reqs |-> 0]
  /\ ran = [r \in reqs |-> None]
  /\ raised = [r \in reqs |-> None]
  /\ svcResult = [r \in reqs |-> None]
  /\ resp = [r \in reqs |-> None]
  /\ lastOk = None
  /\ got = None

Init == Started(Reqs) /\ registry \in Registries

\* identities of the client objects that are still referenced
LiveRefs ==
  {h[1].ref : h \in {x \in {_portia_instance} \cup {local[r] : r \in DOMAIN pc} : x # None}}
    \cup (IF lastOk = None THEN {} ELSE {lastOk[1].ret.ref})
\* the smallest identity that is not in live
MinFree(live) == CHOOSE n \in 1..(Cardinality(live) + 1) :
                   n \notin live /\ \A m \in 1..(n - 1) : m \in live
\* the identity of a newly allocated object differs from every live one
FreshRef == MinFree(LiveRefs)

\* the event loop's thread is inside a blocking call: no coroutine can run
LoopBlocked ==
  \E r \in DOMAIN pc : pc[r] = "executing" /\ running[r][1].thread = "loop"

\* PortiaService(): __new__, then __init__ on the object it returned
Construct ==
  /\ \E obj \in {New(_instance, IF _instance = None THEN 1 ELSE _instance[1] + 1)},
        a \in {ServiceInit(_initialized,
                           [_initialized |-> _initialized, _tools |-> _tools,
                            _portia_instance |-> _portia_instance,
                            _executor |-> _executor],
                           _executor[1] + 1)} :
       /\ _instance' = obj
       /\ _initialized' = a._initialized
       /\ _tools' = a._tools
       /\ _portia_instance' = a._portia_instance
       /\ _executor' = a._executor
       /\ got' = Some([call |-> "PortiaService()", ret |-> obj])
  /\ UNCHANGED <<registry, now, pc, local, start, running, did, execCalls, ran,
                 raised, svcResult, resp, lastOk>>

\* PortiaService.get_instance() called outside a handler; the instance exists
\* since the lifespan's call
GetInstance ==
  /\ _instance # None
  /\ got' = Some([call |-> "get_instance()", ret |-> _instance])
  /\ UNCHANGED <<svcVars, _tools, _portia_instance, registry, now, pc, local, start,
                 running, did, execCalls, ran, raised, svcResult, resp, lastOk>>

\* POST /run with a body that is no RunRequest: answered 422, the handler is
\* not called
PostRunInvalid(r, body) ==
  /\ ~LoopBlocked
  /\ pc[r] \in {"idle"} \cup Terminal
  /\ ~RunRequestValid(body)
  /\ pc' = [pc EXCEPT ![r] = "unprocessable"]
  /\ resp' = [resp EXCEPT ![r] = Some(Unprocessable)]
  /\ local' = [local EXCEPT ![r] = None]
  /\ start' = [start EXCEPT ![r] = None]
  /\ did' = [did EXCEPT ![r] = Nothing]
  /\ execCalls' = [execCalls EXCEPT ![r] = 0]
  /\ ran' = [ran EXCEPT ![r] = None]
  /\ raised' = [raised EXCEPT ![r] = None]
  /\ svcResult' = [svcResult EXCEPT ![r] = None]
  /\ UNCHANGED <<svcVars, _tools, _portia_instance, registry, now, running, lastOk, got>>

\* POST /run up to its await: the handler gets the service from get_instance()
\* and calls run_query, which resolves the
\* client and either raises (answered by the handler's except clauses) or
\* reads the clock and submits portia_instance.run to the executor.  sdk says
\* whether get_tools() or Portia() raises if the call gets to it.
PostRun(r, tools, query, sdk) ==
  /\ ~LoopBlocked
  /\ pc[r] \in {"idle"} \cup Terminal
  /\ RunRequestValid([query |-> Some(query), tools |-> Some(tools)])
  /\ \E res \in {GetPortiaInstance(SetOfList(tools), _tools, _portia_instance,
                                   registry, FreshRef,
                                   sdk # "fetch_raises", sdk # "ctor_raises")} :
        /\ _tools' = res.newTools
        /\ _portia_instance' = res.newInst
        /\ did' = [did EXCEPT ![r] = [fetched |-> res.fetched, built |-> res.built]]
        /\ raised' = [raised EXCEPT ![r] = res.exc]
        /\ IF res.exc = None
           THEN /\ local' = [local EXCEPT ![r] = res.ret]
                /\ start' = [start EXCEPT ![r] = Some(now)]
                /\ pc' = [pc EXCEPT ![r] = "queued"]
                /\ resp' = [resp EXCEPT ![r] = None]
                /\ lastOk' = Some([tools |-> SetOfList(tools), ret |-> res.ret[1]])
           ELSE /\ local' = [local EXCEPT ![r] = None]
                /\ start' = [start EXCEPT ![r] = None]
                /\ pc' = [pc EXCEPT ![r] =
                            IF res.exc[1].type = "InvalidToolsError"
                            THEN "rejected" ELSE "error"]
                /\ resp' = [resp EXCEPT ![r] = Some(RunHandlerExcept(res.exc[1]))]
                /\ lastOk' = lastOk
  /\ execCalls' = [execCalls EXCEPT ![r] = 0]
  /\ ran' = [ran EXCEPT ![r] = None]
  /\ svcResult' = [svcResult EXCEPT ![r] = None]
  /\ got' = Some([call |-> "get_instance()", ret |-> _instance])
  /\ UNCHANGED <<svcVars, registry, now, running>>

\* mutation: a worker that has run a call is never given another one
PoolHasIdleWorker_NoRelease(busy) ==
  Cardinality({q \in DOMAIN execCalls : execCalls[q] > 0}) < max_workers
\* mutation: the pool starts a thread for every submitted call
PoolHasIdleWorker_Always(busy) == TRUE

\* ThreadPoolExecutor(max_workers=settings.max_workers): a submitted call
\* starts only while fewer than max_workers calls are running
PoolHasIdleWorker(busy) == busy < max_workers

\* the submitted call starts: a thread of the pool picks it up
ExecStart(r) ==
  /\ ~LoopBlocked
  /\ pc[r] = "queued"
  /\ PoolHasIdleWorker(Cardinality({q \in DOMAIN pc : pc[q] = "executing"}))
  /\ pc' = [pc EXCEPT ![r] = "executing"]
  /\ running' = [running EXCEPT ![r] =
                   Some([client |-> RunTarget(local[r], _portia_instance),
                         thread |-> ExecutesOn])]
  /\ execCalls' = [execCalls EXCEPT ![r] = @ + 1]
  /\ UNCHANGED <<svcVars, _tools, _portia_instance, registry, now, local, start, did,
                 ran, raised, svcResult, resp, lastOk, got>>

\* mutation: a request that finishes puts its own client back into the cache
ExecReturn_Rebind(r, final_output) ==
  /\ pc[r] = "executing"
  /\ pc' = [pc EXCEPT ![r] = "succeeded"]
  /\ _portia_instance' = local[r]
  /\ _tools' = ClientIds(local[r][1])
  /\ local' = [local EXCEPT ![r] = None]
  /\ start' = [start EXCEPT ![r] = None]
  /\ running' = [running EXCEPT ![r] = None]
  /\ ran' = [ran EXCEPT ![r] = Some([how |-> "returned", val |-> final_output])]
  /\ \E d \in {SuccessDict(final_output, start[r][1], now)} :
       /\ svcResult' = [svcResult EXCEPT ![r] = Some(d)]
       /\ resp' = [resp EXCEPT ![r] = Some(RunResponse(d))]
  /\ UNCHANGED <<svcVars, registry, now, did, execCalls, raised, lastOk, got>>

\* portia_instance.run returned a plan run whose final output is final_output
ExecReturn(r, final_output) ==
  /\ pc[r] = "executing"
  /\ pc' = [pc EXCEPT ![r] = "succeeded"]
  /\ local' = [local EXCEPT ![r] = None]
  /\ start' = [start EXCEPT ![r] = None]
  /\ running' = [running EXCEPT ![r] = None]
  /\ ran' = [ran EXCEPT ![r] = Some([how |-> "returned", val |-> final_output])]
  /\ \E d \in {SuccessDict(final_output, start[r][1], now)} :
       /\ svcResult' = [svcResult EXCEPT ![r] = Some(d)]
       /\ resp' = [resp EXCEPT ![r] = Some(RunResponse(d))]
  /\ UNCHANGED <<svcVars, _tools, _portia_instance, registry, now, did, execCalls,
                 raised, lastOk, got>>

\* mutation: a request whose execution raised is submitted again
ExecRaise_Retry(r, m) ==
  /\ pc[r] = "executing"
  /\ pc' = [pc EXCEPT ![r] = "queued"]
  /\ running' = [running EXCEPT ![r] = None]
  /\ UNCHANGED <<svcVars, _tools, _portia_instance, registry, now, local, start, did,
                 execCalls, ran, raised, svcResult, resp, lastOk, got>>

\* mutation: an execution that raises also drops the cached client
ExecRaise_Evict(r, m) ==
  /\ pc[r] = "executing"
  /\ pc' = [pc EXCEPT ![r] = "faulted"]
  /\ local' = [local EXCEPT ![r] = None]
  /\ start' = [start EXCEPT ![r] = None]
  /\ running' = [running EXCEPT ![r] = None]
  /\ ran' = [ran EXCEPT ![r] = Some([how |-> "raised", val |-> Some(m)])]
  /\ \E d \in {FailureDict(PyException(m), start[r][1], now)} :
       /\ svcResult' = [svcResult EXCEPT ![r] = Some(d)]
       /\ resp' = [resp EXCEPT ![r] = Some(RunResponse(d))]
  /\ _tools' = {}
  /\ _portia_instance' = None
  /\ UNCHANGED <<svcVars, registry, now, did, execCalls, raised, lastOk, got>>

\* portia_instance.run raised Exception(m)
ExecRaise(r, m) ==
  /\ pc[r] = "executing"
  /\ pc' = [pc EXCEPT ![r] = "faulted"]
  /\ local' = [local EXCEPT ![r] = None]
  /\ start' = [start EXCEPT ![r] = None]
  /\ running' = [running EXCEPT ![r] = None]
  /\ ran' = [ran EXCEPT ![r] = Some([how |-> "raised", val |-> Some(m)])]
  /\ \E d \in {FailureDict(PyException(m), start[r][1], now)} :
       /\ svcResult' = [svcResult EXCEPT ![r] = Some(d)]
       /\ resp' = [resp EXCEPT ![r] = Some(RunResponse(d))]
  /\ UNCHANGED <<svcVars, _tools, _portia_instance, registry, now, did, execCalls,
                 raised, lastOk, got>>

\* GET /tools, on the service it gets from get_instance()
GetTools(r, fetchOk) ==
  /\ ~LoopBlocked
  /\ pc[r] \in {"idle"} \cup Terminal
  /\ pc' = [pc EXCEPT ![r] = "listed"]
  /\ resp' = [resp EXCEPT ![r] = Some(ToolsHandler(registry, fetchOk))]
  /\ local' = [local EXCEPT ![r] = None]
  /\ start' = [start EXCEPT ![r] = None]
  /\ did' = [did EXCEPT ![r] = [fetched |-> TRUE, built |-> FALSE]]
  /\ execCalls' = [execCalls EXCEPT ![r] = 0]
  /\ ran' = [ran EXCEPT ![r] = None]
  /\ raised' = [raised EXCEPT ![r] = None]
  /\ svcResult' = [svcResult EXCEPT ![r] = None]
  /\ got' = Some([call |-> "get_instance()", ret |-> _instance])
  /\ UNCHANGED <<svcVars, _tools, _portia_instance, registry, now, running, lastOk>>

\* GET /health
GetHealth(r) ==
  /\ ~LoopBlocked
  /\ pc[r] \in {"idle"} \cup Terminal
  /\ pc' = [pc EXCEPT ![r] = "healthy"]
  /\ resp' = [resp EXCEPT ![r] = Some(HealthHandler)]
  /\ local' = [local EXCEPT ![r] = None]
  /\ start' = [start EXCEPT ![r] = None]
  /\ did' = [did EXCEPT ![r] = Nothing]
  /\ execCalls' = [execCalls EXCEPT ![r] = 0]
  /\ ran' = [ran EXCEPT ![r] = None]
  /\ raised' = [raised EXCEPT ![r] = None]
  /\ svcResult' = [svcResult EXCEPT ![r] = None]
  /\ UNCHANGED <<svcVars, _tools, _portia_instance, registry, now, running, lastOk, got>>

\* the agent runtime's set of available tools changes
CatalogChange(reg) ==
  /\ reg # registry
  /\ registry' = reg
  /\ UNCHANGED <<svcVars, _tools, _portia_instance, now, pc, local, start, running, did,
                 execCalls, ran, raised, svcResult, resp, lastOk, got>>

\* the system clock reads t from now on: time passed, or the clock was set
ClockReads(t) ==
  /\ t # now
  /\ now' = t
  /\ UNCHANGED <<svcVars, _tools, _portia_instance, registry, pc, local, start, running,
                 did, execCalls, ran, raised, svcResult, resp, lastOk, got>>

Next ==
  \/ \E r \in Reqs, tools \in ToolLists, query \in QueryStrings, sdk \in SdkOutcomes :
       PostRun(r, tools, query, sdk)
  \/ \E r \in Reqs, body \in RunBodies : PostRunInvalid(r, body)
  \/ \E r \in Reqs : ExecStart(r)
  \/ \E r \in Reqs, out \in Outputs : ExecReturn(r, out)
  \/ \E r \in Reqs, m \in ExecFaultMsgs : ExecRaise(r, m)
  \/ \E r \in Reqs, fetchOk \in BOOLEAN : GetTools(r, fetchOk)
  \/ \E reg \in Registries : CatalogChange(reg)

Spec == Init /\ [][Next]_vars

\* the service while the application also constructs and looks up the service
\* between requests; the runtime's calls return
NextSingleton ==
  \/ Construct
  \/ GetInstance
  \/ \E r \in Reqs, tools \in ToolLists, query \in Queries : PostRun(r, tools, query, "ok")
  \/ \E r \in Reqs : ExecStart(r)
  \/ \E r \in Reqs, out \in Outputs : ExecReturn(r, out)
  \/ \E reg \in Registries : CatalogChange(reg)

SpecSingleton == Init /\ [][NextSingleton]_vars

\* the service while the system clock moves: it advances, and it can be set
\* (time.time() is the wall clock); the resolve step's SDK calls return
NextClock ==
  \/ \E t \in ClockReadings : ClockReads(t)
  \/ \E r \in Reqs, tools \in ToolLists, query \in Queries : PostRun(r, tools, query, "ok")
  \/ \E r \in Reqs : ExecStart(r)
  \/ \E r \in Reqs, out \in Outputs : ExecReturn(r, out)
  \/ \E r \in Reqs, m \in ExecFaultMsgs : ExecRaise(r, m)

SpecClock == Init /\ [][NextClock]_vars

\* concurrent clients: each of the requests arrives once, at any time, and the
\* executions overlap in any way the worker pool allows
InitConcurrent == Started(Clients) /\ registry \in Registries

\* request r is a POST /run
RunOnce(r, tools, query, sdk) == pc[r] = "idle" /\ PostRun(r, tools, query, sdk)
\* request r is a GET /tools
ToolsOnce(r, fetchOk) == pc[r] = "idle" /\ GetTools(r, fetchOk)
\* request r is a GET /health
HealthOnce(r) == pc[r] = "idle" /\ GetHealth(r)

NextConcurrent ==
  \/ \E r \in Clients, tools \in ToolLists, query \in Queries, sdk \in SdkOutcomes :
       RunOnce(r, tools, query, sdk)
  \/ \E r \in Clients, fetchOk \in BOOLEAN : ToolsOnce(r, fetchOk)
  \/ \E r \in Clients : HealthOnce(r)
  \/ \E r \in Clients : ExecStart(r)
  \/ \E r \in Clients, out \in Outputs : ExecReturn(r, out)
  \/ \E r \in Clients, m \in ExecFaultMsgs : ExecRaise(r, m)
  \/ \E reg \in Registries : CatalogChange(reg)

SpecConcurrent == InitConcurrent /\ [][NextConcurrent]_vars

\* more clients than workers: the requests are POST /run for {a} or {b}
\* while the catalog lists a, each arriving once
PoolClients == 1..(max_workers + NumExtra)
InitPool == Started(PoolClients) /\ registry = <<A1>>

NextPool ==
  \/ \E r \in PoolClients, tools \in {<<"a">>, <<"b">>}, query \in Queries,
        sdk \in SdkOutcomes : RunOnce(r, tools, query, sdk)
  \/ \E r \in PoolClients : ExecStart(r)
  \/ \E r \in PoolClients, out \in Outputs : ExecReturn(r, out)
  \/ \E r \in PoolClients, m \in ExecFaultMsgs : ExecRaise(r, m)

SpecPool == InitPool /\ [][NextPool]_vars

\* The same run under fair scheduling: the pool's work queue hands a waiting
\* call to a worker that stays idle (concurrent.futures takes work items from
\* a FIFO queue), and a run call that has started returns or raises.
Finishes(r) ==
  \/ \E out \in Outputs : ExecReturn(r, out)
  \/ \E m \in ExecFaultMsgs : ExecRaise(r, m)
FairPool ==
  \A r \in PoolClients : WF_vars(ExecStart(r)) /\ WF_vars(Finishes(r))
SpecPoolFair == InitPool /\ [][NextPool]_vars /\ FairPool

TypeOK ==
  /\ _instance # None
  /\ _initialized \in BOOLEAN
  /\ _executor # None
  /\ now \in ClockReadings
  /\ _tools \subseteq ToolIds
  /\ pc \in [DOMAIN pc -> {"idle", "queued", "executing"} \cup Terminal]

\* ---- the claims ------------------------------------------------------------
\* the identifiers the runtime offers when it returns the tool list reg
CatalogKeys(reg) == {reg[i].id : i \in DOMAIN reg}
\* the handle the catalog holds for identifier t (the last tool listed with it)
CatalogHandle(reg, t) ==
  reg[CHOOSE i \in DOMAIN reg : reg[i].id = t /\ \A j \in DOMAIN reg : reg[j].id = t => j <= i]
IsInvalidTools(e) == e # None /\ e[1].type = "InvalidToolsError"
\* slot r took a step that can be a POST /run up to its await
Resolved(r) ==
  /\ pc[r] \notin {"queued", "executing"}
  /\ pc'[r] \in {"queued", "rejected", "error"}
  /\ <<pc[r], resp[r], raised[r], did[r]>> # <<pc'[r], resp'[r], raised'[r], did'[r]>>

\* slot r took a step that can be the handling of a request
Handled(r) ==
  /\ pc[r] \notin {"queued", "executing"}
  /\ <<pc[r], resp[r], raised[r], did[r]>> # <<pc'[r], resp'[r], raised'[r], did'[r]>>

\* C1: a _get_portia_instance call that fetches a catalog containing every
\* requested identifier (and whose SDK calls return) returns a client built
\* from exactly the catalog's handles of the requested identifiers, and the
\* cache is then bound to the requested set and to that client.
C1_ResolveSubset ==
  [][\A r \in Reqs : Resolved(r) => \A tools \in ToolLists, q \in Queries :
       (/\ did'[r].fetched
        /\ SetOfList(tools) \subseteq CatalogKeys(registry)
        /\ PostRun(r, tools, q, "ok"))
       => /\ pc'[r] = "queued"
          /\ raised'[r] = None
          /\ did'[r].built
          /\ local'[r] # None
          /\ Range(local'[r][1].tools) =
               {CatalogHandle(registry, t) : t \in SetOfList(tools)}
          /\ Len(local'[r][1].tools) = Cardinality(SetOfList(tools))
          /\ _tools' = SetOfList(tools)
          /\ _portia_instance' = local'[r]]_vars

\* a client for {a, b} was just built from a catalog that lists both
C1_Witness ==
  \E r \in Reqs : /\ pc[r] = "queued" /\ did[r].built
                  /\ _tools = {"a", "b"} /\ local[r] = _portia_instance
                  /\ Range(local[r][1].tools) = {A1, B1}

\* C2: a _get_portia_instance call whose request is not a subset of the fetched
\* catalog raises InvalidToolsError whose invalid_tools are exactly the
\* requested identifiers missing from the catalog and whose available_tools
\* are exactly the catalog's identifiers.
C2_InvalidExact ==
  [][\A r \in Reqs : Resolved(r) => \A tools \in ToolLists, q \in Queries, sdk \in {"ok", "ctor_raises"} :
       (/\ did'[r].fetched
        /\ ~(SetOfList(tools) \subseteq CatalogKeys(registry))
        /\ PostRun(r, tools, q, sdk))
       => /\ IsInvalidTools(raised'[r])
          /\ Range(raised'[r][1].invalid_tools) = SetOfList(tools) \ CatalogKeys(registry)
          /\ Range(raised'[r][1].available_tools) = CatalogKeys(registry)]_vars

\* C3 as claimed: a POST /run whose tool set has an identifier the runtime does
\* not offer at that time is rejected with InvalidTools and not executed, also
\* when that tool set is the one bound in the cache (stated for requests during
\* which the runtime's registry answers).
C3_RejectsAbsentAlways ==
  [][\A r \in Reqs : Resolved(r) => \A tools \in ToolLists, q \in Queries, sdk \in {"ok", "ctor_raises"} :
       (/\ ~(SetOfList(tools) \subseteq CatalogKeys(registry))
        /\ PostRun(r, tools, q, sdk))
       => /\ pc'[r] = "rejected"
          /\ IsInvalidTools(raised'[r])
          /\ resp'[r][1].status = 400
          /\ execCalls'[r] = 0]_vars

\* C3 amended: a POST /run whose tool set has an identifier the runtime does
\* not offer at that time, and whose tool set is not the one bound to a cached
\* client, is not executed: it is rejected with InvalidTools (400), or answered
\* 500 when the catalog fetch raises; a finished request never starts executing.
C3_RejectsAbsentOnMiss ==
  [][/\ \A r \in Reqs : Resolved(r) => \A tools \in ToolLists, q \in Queries, sdk \in SdkOutcomes :
          (/\ ~(SetOfList(tools) \subseteq CatalogKeys(registry))
           /\ ~(SetOfList(tools) = _tools /\ _portia_instance # None)
           /\ PostRun(r, tools, q, sdk))
          => /\ execCalls'[r] = 0
             /\ local'[r] = None
             /\ IF sdk # "fetch_raises"
                THEN /\ pc'[r] = "rejected"
                     /\ IsInvalidTools(raised'[r])
                     /\ resp'[r][1].status = 400
                ELSE /\ pc'[r] = "error"
                     /\ resp'[r][1].status = 500
                     /\ resp'[r][1].body = <<"Internal server error: ", CatalogFaultMsg>>
     /\ \A r \in Reqs : pc[r] \in {"rejected", "error"}
                          => pc'[r] # "executing" /\ execCalls'[r] = 0]_vars

\* a request was rejected while a client bound to another set is cached
C3_Witness ==
  \E r \in Reqs : /\ pc[r] = "rejected" /\ IsInvalidTools(raised[r])
                  /\ resp[r][1].status = 400 /\ execCalls[r] = 0
                  /\ _portia_instance # None /\ _tools = {"a"}

\* C4: a _get_portia_instance call for the tool set of the most recent call
\* that returned gets the identical client, fetches no catalog and builds no
\* client.
C4_Idempotent ==
  [][\A r \in Reqs : Resolved(r) => \A tools \in ToolLists, q \in Queries, sdk \in SdkOutcomes :
       (/\ lastOk # None
        /\ SetOfList(tools) = lastOk[1].tools
        /\ PostRun(r, tools, q, sdk))
       => /\ pc'[r] = "queued"
          /\ local'[r] = Some(lastOk[1].ret)
          /\ ~did'[r].fetched
          /\ ~did'[r].built
          /\ _portia_instance' = _portia_instance
          /\ _tools' = _tools]_vars

\* a request for {a} was served by the cached client without a fetch
C4_Witness ==
  \E r \in Reqs : /\ pc[r] = "queued" /\ ~did[r].fetched /\ ~did[r].built
                  /\ lastOk # None /\ lastOk[1].tools = {"a"}
                  /\ local[r] = Some(lastOk[1].ret)

\* C5: a _get_portia_instance call that returns for a tool set other than the
\* one of the most recent call that returned builds a new client, distinct
\* from that call's, and makes it the only binding of the cache.
C5_Invalidate ==
  [][\A r \in Reqs : Resolved(r) => \A tools \in ToolLists, q \in Queries, sdk \in SdkOutcomes :
       (/\ pc'[r] = "queued"
        /\ lastOk # None
        /\ SetOfList(tools) # lastOk[1].tools
        /\ PostRun(r, tools, q, sdk))
       => /\ did'[r].built
          /\ local'[r][1].ref # lastOk[1].ret.ref
          /\ {t.id : t \in Range(local'[r][1].tools)} = SetOfList(tools)
          /\ _tools' = SetOfList(tools)
          /\ _portia_instance' = local'[r]
          /\ _portia_instance' # _portia_instance]_vars

\* a second client was built for {a} while the first was still referenced
C5_Witness ==
  \E r \in Reqs : /\ pc[r] = "queued" /\ did[r].built
                  /\ local[r][1].ref = 2 /\ _tools = {"a"}
                  /\ _portia_instance = local[r]

\* C6: every dict run_query returns, and the RunResponse built from it, has
\* result and not error populated when success is true, and error and not
\* result when success is false.
C6_ExactlyOne ==
  \A r \in Reqs :
    /\ svcResult[r] # None
         => LET d == svcResult[r][1]
            IN IF d.success
               THEN ("result" \in DOMAIN d /\ d.result # None) /\ "error" \notin DOMAIN d
               ELSE ("error" \in DOMAIN d /\ d.error # None) /\ "result" \notin DOMAIN d
    /\ (pc[r] \in {"succeeded", "faulted"} /\ resp[r] # None)
         => LET b == resp[r][1].body
            IN IF b.success
               THEN b.result # None /\ b.error = None
               ELSE b.error # None /\ b.result = None

\* C7: when the runtime's run call raises, run_query raises nothing and
\* returns success false with the stringified fault, and POST /run answers 200
\* with that payload.
C7_FaultAbsorbed ==
  \A r \in Reqs :
    (ran[r] # None /\ ran[r][1].how = "raised")
      => /\ pc[r] = "faulted"
         /\ raised[r] = None
         /\ svcResult[r] # None
         /\ svcResult[r][1].success = FALSE
         /\ svcResult[r][1].error = Some(<<ran[r][1].val[1]>>)
         /\ resp[r] = Some([status |-> 200,
                            body |-> [success |-> FALSE, result |-> None,
                                      error |-> Some(<<ran[r][1].val[1]>>),
                                      execution_time |->
                                        svcResult[r][1].execution_time]])

\* an execution raised "boom" and the request was answered
C7_Witness ==
  \E r \in Reqs : /\ ran[r] = Some([how |-> "raised", val |-> Some("boom")])
                  /\ resp[r] # None /\ resp[r][1].status = 200

\* C8: an InvalidToolsError of the resolve step leaves run_query as an
\* exception (no result dict, no execution) and POST /run answers 400 with the
\* error text, the message and exactly the exception's two lists.
C8_InvalidTools400 ==
  \A r \in Reqs :
    IsInvalidTools(raised[r])
      => /\ pc[r] = "rejected"
         /\ svcResult[r] = None
         /\ ran[r] = None
         /\ execCalls[r] = 0
         /\ resp[r] # None
         /\ resp[r][1].status = 400
         /\ DOMAIN resp[r][1].body =
              {"error", "message", "invalid_tools", "available_tools"}
         /\ resp[r][1].body.error = "Invalid tools requested"
         /\ resp[r][1].body.message = raised[r][1].msg
         /\ resp[r][1].body.invalid_tools = raised[r][1].invalid_tools
         /\ resp[r][1].body.available_tools = raised[r][1].available_tools

\* {a, b} was requested while the catalog listed only a
C8_Witness ==
  \E r \in Reqs : /\ IsInvalidTools(raised[r])
                  /\ Range(raised[r][1].invalid_tools) = {"a", "b"}
                  /\ raised[r][1].available_tools = <<"a">>
                  /\ resp[r][1].status = 400

\* C9: a catalog-fetch fault or a client-construction fault of the resolve
\* step, and any exception run_query raises other than InvalidToolsError, is
\* answered 500 with "Internal server error: <message>", without a result dict.
C9_OtherFault500 ==
  [][/\ \A r \in Reqs : Resolved(r) => \A tools \in ToolLists, q \in Queries :
          (did'[r].fetched /\ PostRun(r, tools, q, "fetch_raises"))
          => /\ pc'[r] = "error"
             /\ svcResult'[r] = None
             /\ resp'[r][1].status = 500
             /\ resp'[r][1].body = <<"Internal server error: ", CatalogFaultMsg>>
     /\ \A r \in Reqs : Resolved(r) => \A tools \in ToolLists, q \in Queries :
          (/\ did'[r].fetched
           /\ SetOfList(tools) \subseteq CatalogKeys(registry)
           /\ PostRun(r, tools, q, "ctor_raises"))
          => /\ pc'[r] = "error"
             /\ svcResult'[r] = None
             /\ resp'[r][1].status = 500
             /\ resp'[r][1].body = <<"Internal server error: ", CtorFaultMsg>>
     /\ \A r \in Reqs :
          (raised'[r] # None /\ ~IsInvalidTools(raised'[r]))
          => /\ pc'[r] = "error"
             /\ resp'[r][1].status = 500
             /\ resp'[r][1].body = <<"Internal server error: ">> \o raised'[r][1].msg]_vars

\* the client constructor raised and the request was answered 500
C9_Witness ==
  \E r \in Reqs : /\ pc[r] = "error"
                  /\ raised[r] # None /\ raised[r][1].msg = <<CtorFaultMsg>>
                  /\ resp[r][1].status = 500

\* C10: GET /tools answers 200 with one entry per key of the catalog the
\* runtime offers at that time, whatever the cache is bound to, and leaves the
\* cache alone; when the fetch raises it answers 500 with
\* "Failed to get available tools: <message>".
C10_ToolsListing ==
  [][\A r \in Reqs, fetchOk \in BOOLEAN :
       (pc'[r] = "listed" /\ GetTools(r, fetchOk))
       => /\ _tools' = _tools
          /\ _portia_instance' = _portia_instance
          /\ IF fetchOk
             THEN /\ resp'[r][1].status = 200
                  /\ Range(resp'[r][1].body) = CatalogKeys(registry)
                  /\ Len(resp'[r][1].body) = Cardinality(CatalogKeys(registry))
             ELSE resp'[r] = Some([status |-> 500,
                                   body |-> <<"Failed to get available tools: ",
                                              CatalogFaultMsg>>])]_vars

\* the tools were listed while the cache was bound to another set
C10_Witness ==
  \E r \in Reqs : /\ pc[r] = "listed"
                  /\ resp[r] = Some([status |-> 200, body |-> <<"b", "a">>])
                  /\ _portia_instance # None /\ _tools = {"a"}

C12_EmptyToolsValid ==
  [][\A r \in Reqs : Resolved(r) => \A q \in Queries, sdk \in SdkOutcomes :
       PostRun(r, << >>, q, sdk)
       => /\ ~IsInvalidTools(raised'[r])
          /\ pc'[r] # "rejected"
          /\ sdk = "ok"
               => /\ pc'[r] = "queued"
                  /\ raised'[r] = None
                  /\ local'[r] # None
                  /\ local'[r][1].tools = << >>
                  /\ _tools' = {}
                  /\ _portia_instance' = local'[r]]_vars

\* the first client of the service was built for no tools from an empty catalog
C12_Witness ==
  \E r \in Reqs : /\ pc[r] = "queued" /\ did[r].built
                  /\ registry = << >>
                  /\ local[r] = Some(Portia(1, << >>))
                  /\ _tools = {} /\ _portia_instance = local[r]

\* C13: there is one PortiaService object: every PortiaService() call and
\* every get_instance() call returns the object the class attribute held before
\* the call, no step replaces that object or its thread pool, and a
\* construction leaves the bound tool set, the cached client and the
\* initialised flag as they were.
C13_Singleton ==
  [][/\ _instance' = _instance
     /\ _executor' = _executor
     /\ (Construct \/ GetInstance)
          => /\ got' # None
             /\ got'[1].ret = _instance
             /\ _initialized' = _initialized
             /\ _tools' = _tools
             /\ _portia_instance' = _portia_instance
     /\ (got # None /\ got' # None) => got'[1].ret = got[1].ret]_vars

\* PortiaService() was called after a client for {a} was bound, and returned
\* the object of the lifespan's call
C13_Witness ==
  /\ got = Some([call |-> "PortiaService()", ret |-> New(None, 1)])
  /\ _tools = {"a"} /\ _portia_instance # None
  /\ \E r \in Reqs : pc[r] = "executing" /\ local[r] = _portia_instance

\* C14: every dict run_query returns, on the success path and on the failure
\* path, has an execution_time that is a number and is not negative.
C14_ExecTimeNonNegative ==
  \A r \in Reqs :
    svcResult[r] # None
      => /\ "execution_time" \in DOMAIN svcResult[r][1]
         /\ svcResult[r][1].execution_time # None
         /\ svcResult[r][1].execution_time[1] >= 0

\* C15: an execution is always running on a thread of the worker pool, never
\* on the event loop's thread, and while executions are running a request
\* that has not arrived yet can be accepted and handled: GET /health, GET /tools
\* and the resolve step of a POST /run are enabled.
C15_LoopStaysFree ==
  \A r \in Clients :
    pc[r] = "executing"
      => /\ running[r] # None
         /\ running[r][1].thread = "worker"
         /\ \A q \in Clients :
              pc[q] = "idle"
                => /\ ENABLED HealthOnce(q)
                   /\ ENABLED ToolsOnce(q, TRUE)
                   /\ \A tools \in ToolLists : ENABLED RunOnce(q, tools, "q", "ok")

\* two executions overlap, both on worker threads: the second request was
\* resolved and dispatched while the first was in flight
C15_Witness ==
  \E r, q \in Clients :
    /\ r # q
    /\ pc[r] = "executing" /\ running[r][1].thread = "worker"
    /\ pc[q] = "executing" /\ running[q][1].thread = "worker"

\* C16: the client a POST /run's resolve step returns is bound to exactly the
\* request's tool set, the request keeps that client for as long as it is in
\* flight whatever other requests do to the cache slot, and its execution
\* runs on that client.
C16_OwnClient ==
  [][\A r \in Clients :
       /\ (pc[r] = "idle" /\ pc'[r] = "queued")
            => \A tools \in ToolLists, q \in Queries, sdk \in SdkOutcomes :
                 RunOnce(r, tools, q, sdk)
                 => /\ local'[r] # None
                    /\ ClientIds(local'[r][1]) = SetOfList(tools)
       /\ (pc[r] \in {"queued", "executing"} /\ pc'[r] \in {"queued", "executing"})
            => local'[r] = local[r]
       /\ pc'[r] = "executing"
            => /\ local'[r] # None
               /\ running'[r] # None
               /\ running'[r][1].client = local'[r]]_vars

\* a request for {a} is executing on its own client after another request
\* replaced the cache slot by a client for {a, b}
C16_Witness ==
  \E r \in Clients :
    /\ pc[r] = "executing"
    /\ ClientIds(local[r][1]) = {"a"}
    /\ running[r][1].client = local[r]
    /\ _tools = {"a", "b"}
    /\ _portia_instance # None /\ _portia_instance # local[r]

\* the cache slot holds no client and the empty set, or a client built from
\* exactly the bound set
SlotConsistent(boundTools, inst) ==
  IF inst = None THEN boundTools = {}
  ELSE /\ ClientIds(inst[1]) = boundTools
       /\ Len(inst[1].tools) = Cardinality(boundTools)

\* C17: in every state the cache slot is consistent: without a client the
\* bound set is empty, with a client the client was built from exactly the
\* bound set.  The bound set and the client change only together, in a step
\* that stores a client built from the catalog's handles for a set contained
\* in the catalog fetched in that step.
C17_SlotConsistent ==
  [][/\ SlotConsistent(_tools, _portia_instance)
     /\ SlotConsistent(_tools', _portia_instance')
     /\ _tools' # _tools => _portia_instance' # _portia_instance
     /\ _portia_instance' # _portia_instance
          => /\ _portia_instance' # None
             /\ _tools' \subseteq CatalogKeys(registry)
             /\ Range(_portia_instance'[1].tools) =
                  {CatalogHandle(registry, t) : t \in _tools'}]_vars

\* the slot was rebound to {a, b} while a request still holds the client that
\* was bound before
C17_Witness ==
  /\ _portia_instance # None
  /\ _tools = {"a", "b"}
  /\ ClientIds(_portia_instance[1]) = {"a", "b"}
  /\ \E r \in Clients : /\ pc[r] \in {"queued", "executing"}
                        /\ local[r] # _portia_instance
                        /\ ClientIds(local[r][1]) = {"a"}

\* C18: a resolve step builds a client only when the requested set is not the
\* bound set (or no client is cached yet), and the client it builds becomes
\* the binding; otherwise it builds nothing and returns the cached client.
\* In particular a request for the set S whose cached client another request
\* in flight holds gets that same client: no second client is built for S.
C18_OneConstruction ==
  [][\A r \in Clients :
       (pc[r] = "idle" /\ pc'[r] = "queued")
         => \A tools \in ToolLists, q \in Queries, sdk \in SdkOutcomes :
              RunOnce(r, tools, q, sdk)
              => /\ did'[r].built
                      => /\ SetOfList(tools) # _tools \/ _portia_instance = None
                         /\ _tools' = SetOfList(tools)
                         /\ _portia_instance' = local'[r]
                         /\ \A o \in Clients : local[o] # None => local[o] # local'[r]
                 /\ ~did'[r].built
                      => /\ SetOfList(tools) = _tools
                         /\ local'[r] = _portia_instance
                         /\ _portia_instance' = _portia_instance
                         /\ _tools' = _tools
                 /\ \A o \in Clients :
                      (/\ o # r
                       /\ pc[o] \in {"queued", "executing"}
                       /\ local[o] = _portia_instance
                       /\ SetOfList(tools) = _tools)
                      => /\ ~did'[r].built
                         /\ local'[r] = local[o]]_vars

\* two requests for {a} are in flight: the first built the client, the second
\* got the same client from the cache
C18_Witness ==
  \E r, o \in Clients :
    /\ r # o
    /\ pc[r] \in {"queued", "executing"} /\ pc[o] \in {"queued", "executing"}
    /\ did[r].built /\ ~did[o].built
    /\ local[r] = local[o] /\ ClientIds(local[r][1]) = {"a"}

\* the cache slot is as the most recent resolve step that returned a client
\* left it, or empty when there was none
SlotIsLastResolved(boundTools, inst, last) ==
  IF last = None THEN boundTools = {} /\ inst = None
  ELSE boundTools = last[1].tools /\ inst = Some(last[1].ret)

\* C19: in every state the bound set and the client of the cache slot are
\* those of the most recent resolve step that built a client (a cache hit
\* returns that same client and changes nothing), or the empty set and no
\* client before the first one; a step in which an execution starts, returns
\* or raises leaves the slot alone, so the order in which executions finish
\* does not matter.
C19_LastWriterWins ==
  [][/\ SlotIsLastResolved(_tools, _portia_instance, lastOk)
     /\ SlotIsLastResolved(_tools', _portia_instance', lastOk')
     /\ \A r \in Clients :
          /\ (pc[r] = "idle" /\ pc'[r] = "queued" /\ ~did'[r].built)
               => lastOk' = lastOk
          /\ (pc[r] = "idle" /\ pc'[r] = "queued" /\ did'[r].built)
               => /\ lastOk'[1].ret = local'[r][1]
                  /\ lastOk'[1].tools = ClientIds(local'[r][1])
          /\ (pc[r] \in {"queued", "executing"} /\ pc'[r] # pc[r])
               => /\ _tools' = _tools
                  /\ _portia_instance' = _portia_instance
                  /\ lastOk' = lastOk]_vars

\* the request that resolved last finished first: the slot is still bound to
\* its set {a, b} while the earlier request for {a} is executing
C19_Witness ==
  \E r, o \in Clients :
    /\ pc[r] = "executing" /\ ClientIds(local[r][1]) = {"a"}
    /\ pc[o] = "succeeded" /\ did[o].built
    /\ _tools = {"a", "b"}
    /\ lastOk # None /\ lastOk[1].tools = {"a", "b"}
    /\ _portia_instance = Some(lastOk[1].ret) /\ _portia_instance # local[r]

\* the steps of request r after its resolve step: execution starts only from
\* the state the successful resolve step left, ends succeeded or faulted, and
\* no step leaves a final state or executes a finished request
AfterResolve(r, final) ==
  /\ (pc'[r] = "executing" /\ pc[r] # "executing")
       => /\ pc[r] = "queued"
          /\ raised[r] = None
          /\ local[r] # None
  /\ pc[r] = "queued" => pc'[r] \in {"queued", "executing"}
  /\ pc[r] = "executing" => pc'[r] \in {"executing", "succeeded", "faulted"}
  /\ pc[r] \in final => pc'[r] = pc[r] /\ execCalls'[r] = execCalls[r]

\* C20 as claimed: a POST /run leaves its resolve step either rejected with
\* InvalidTools or resolved and submitted for execution; execution starts only
\* after the resolve step succeeded; rejected, succeeded and faulted are final.
C20_MachineAsClaimed ==
  [][\A r \in Clients :
       /\ pc[r] = "idle"
            => \A tools \in ToolLists, q \in Queries, sdk \in SdkOutcomes :
                 RunOnce(r, tools, q, sdk) => pc'[r] \in {"rejected", "queued"}
       /\ AfterResolve(r, {"rejected", "succeeded", "faulted"})]_vars

\* C20 amended: a POST /run leaves its resolve step rejected with
\* InvalidTools (400), failed with another fault of the resolve step (500),
\* or resolved and submitted for execution, which happens exactly when the
\* resolve step raised nothing; execution starts only after the resolve step
\* succeeded; rejected, failed, succeeded and faulted are final.
C20_Machine ==
  [][\A r \in Clients :
       /\ pc[r] = "idle"
            => \A tools \in ToolLists, q \in Queries, sdk \in SdkOutcomes :
                 RunOnce(r, tools, q, sdk)
                 => /\ pc'[r] \in {"rejected", "error", "queued"}
                    /\ pc'[r] = "queued" <=> raised'[r] = None
                    /\ pc'[r] = "rejected" <=> IsInvalidTools(raised'[r])
                    /\ pc'[r] = "queued" => local'[r] # None
                    /\ execCalls'[r] = 0
       /\ AfterResolve(r, {"rejected", "error", "succeeded", "faulted"})]_vars

\* one request ended in the resolve step with a fault that is not
\* InvalidTools, another went through execution to a fault
C20_Witness ==
  \E r, o \in Clients :
    /\ pc[r] = "error" /\ resp[r][1].status = 500 /\ execCalls[r] = 0
    /\ pc[o] = "faulted" /\ execCalls[o] = 1

\* C21: the runtime's run method is called once for a request whose resolve
\* step returned a client (the call has started, returned or raised) and never
\* for a request that is waiting, was rejected or failed in the resolve step;
\* a resolve step that fails builds no client; and once the resolve step is
\* over the request fetches no catalog and builds no client again, and once
\* the request is answered nothing is attempted for it again.
C21_SingleAttempt ==
  [][\A r \in Clients :
       /\ execCalls[r] = (IF pc[r] \in {"executing", "succeeded", "faulted"} THEN 1 ELSE 0)
       /\ execCalls'[r] = (IF pc'[r] \in {"executing", "succeeded", "faulted"} THEN 1 ELSE 0)
       /\ (pc[r] = "idle" /\ pc'[r] \in {"rejected", "error"})
            => ~did'[r].built /\ raised'[r] # None
       /\ pc[r] \in {"queued", "executing"} => did'[r] = did[r]
       /\ pc[r] \in {"rejected", "error", "succeeded", "faulted"}
            => /\ pc'[r] = pc[r]
               /\ did'[r] = did[r]
               /\ execCalls'[r] = execCalls[r]
               /\ resp'[r] = resp[r]]_vars

\* one request was executed once and faulted, another was rejected after one
\* catalog fetch and never executed
C21_Witness ==
  \E r, o \in Clients :
    /\ pc[r] = "faulted" /\ execCalls[r] = 1
    /\ ran[r] = Some([how |-> "raised", val |-> Some("boom")])
    /\ pc[o] = "rejected" /\ execCalls[o] = 0
    /\ did[o] = [fetched |-> TRUE, built |-> FALSE]

\* the requests whose run call is executing
Executing == {r \in DOMAIN pc : pc[r] = "executing"}

\* C22: never more than max_workers executions run at the same time; a
\* submitted call starts only in a state with fewer than max_workers running
\* executions, so while the pool is full a resolved request stays waiting.
C22_PoolBound ==
  [][/\ Cardinality(Executing) <= max_workers
     /\ Cardinality(Executing') <= max_workers
     /\ \A r \in PoolClients :
          (pc[r] = "queued" /\ Cardinality(Executing) >= max_workers)
            => pc'[r] = "queued"]_vars

\* every worker is busy and a resolved request is waiting
C22_Witness ==
  /\ Cardinality(Executing) = max_workers
  /\ \E r \in PoolClients : pc[r] = "queued" /\ local[r] # None /\ execCalls[r] = 0


\* The handle the merged registries hold for identifier t: the extended
\* registry's when it is included and lists t, else the primary registry's.
MergedHandle(primary, extended, credential, t) ==
  IF credential /\ t \in CatalogKeys(extended)
    THEN CatalogHandle(extended, t)
    ELSE CatalogHandle(primary, t)

MergedKeys(primary, extended, credential) ==
  CatalogKeys(primary) \cup (IF credential THEN CatalogKeys(extended) ELSE {})

\* C23: given that the runtime's registry lists the primary registry's tools
\* first and then, only when the access credential is present, the extended
\* registry's, the catalog fetch yields one mapping with exactly one handle
\* per distinct identifier, and for an identifier listed more than once the
\* handle listed last: a client built from the mapping is bound to that
\* handle, and GET /tools lists every distinct identifier once.
C23_CatalogMerge ==
  [][\A r \in Reqs : Handled(r) =>
       /\ \E primary \in DefaultTools, extended \in ExtendedTools,
             credential \in BOOLEAN :
            RegistryTools(primary, extended, credential) = registry
       /\ \A primary \in DefaultTools, extended \in ExtendedTools,
          credential \in BOOLEAN :
         RegistryTools(primary, extended, credential) = registry =>
           LET fetched == _get_available_tools_map(registry) IN
           /\ KeysSet(fetched) = MergedKeys(primary, extended, credential)
           /\ Len(KeysList(fetched)) = Cardinality(KeysSet(fetched))
           /\ \A t \in KeysSet(fetched) :
                fetched.val[t] = MergedHandle(primary, extended, credential, t)
           /\ (pc'[r] = "queued" /\ did'[r].built) =>
                \A i \in DOMAIN local'[r][1].tools :
                  \E t \in MergedKeys(primary, extended, credential) :
                    local'[r][1].tools[i]
                      = MergedHandle(primary, extended, credential, t)
           /\ (pc'[r] = "listed" /\ resp'[r][1].status = 200) =>
                /\ Range(resp'[r][1].body)
                     = MergedKeys(primary, extended, credential)
                /\ Len(resp'[r][1].body)
                     = Cardinality(MergedKeys(primary, extended, credential))]_vars

\* a client was built while both registries list "a": it holds the extended
\* registry's handle
C23_Witness ==
  /\ registry = RegistryTools(<<A1>>, <<A2>>, TRUE)
  /\ \E r \in Reqs :
       /\ pc[r] = "queued" /\ did[r].built
       /\ local[r] # None /\ local[r][1].tools = <<A2>>


\* C24 as claimed: under fair scheduling every POST /run that has arrived is
\* eventually rejected with InvalidTools, succeeded or faulted in execution.
C24_EndsAsClaimed ==
  \A r \in PoolClients :
    (pc[r] # "idle") ~> (pc[r] \in {"rejected", "succeeded", "faulted"})

\* C24 amended: under fair scheduling every POST /run that has arrived is
\* eventually answered: rejected with InvalidTools (400), failed in the resolve
\* step (500), succeeded, or faulted in execution; in particular a call that
\* waits for a worker is eventually executed, also when more calls were
\* submitted than the pool has workers.
C24_Ends ==
  /\ \A r \in PoolClients :
       (pc[r] # "idle") ~> (pc[r] \in {"rejected", "error", "succeeded", "faulted"})
  /\ \A r \in PoolClients :
       (pc[r] = "queued") ~> (pc[r] \in {"succeeded", "faulted"})

\* more calls are in flight than the pool has workers: every worker runs a
\* call and a resolved request waits for one
C24_Witness ==
  /\ Cardinality(Executing) = max_workers
  /\ \A o \in Executing : execCalls[o] = 1 /\ running[o] # None
  /\ \E r \in PoolClients :
       /\ pc[r] = "queued" /\ raised[r] = None /\ resp[r] = None
       /\ ENABLED Finishes(CHOOSE o \in Executing : TRUE)
       /\ ~ENABLED ExecStart(r)


\* the bound set and the client of the cache slot
Slot == <<_tools, _portia_instance>>

\* C25: the cache slot changes only in a step in which a POST /run misses the
\* cache and its resolve step returns a newly built client.  A resolve step
\* that fails (InvalidTools, catalog fault, construction fault), a cache hit,
\* an execution that returns or raises, GET /tools and GET /health leave the
\* bound set and the client as they were, so a request for the bound set is
\* still a cache hit afterwards.
C25_SlotFrame ==
  [][/\ Slot' # Slot =>
          \E r \in Clients :
            /\ pc[r] = "idle" /\ pc'[r] = "queued"
            /\ did'[r].built /\ raised'[r] = None
            /\ ~CacheHit(_tools', _tools, _portia_instance)
            /\ _portia_instance' = local'[r]
     /\ \A r \in Clients :
          /\ (pc[r] = "idle" /\ pc'[r] \in {"rejected", "error"}) => Slot' = Slot
          /\ (pc[r] = "idle" /\ pc'[r] = "queued" /\ ~did'[r].built)
               => Slot' = Slot /\ local'[r] = _portia_instance
          /\ (pc[r] = "executing" /\ pc'[r] \in {"succeeded", "faulted"})
               => Slot' = Slot
          /\ (pc[r] = "idle" /\ pc'[r] \in {"listed", "healthy"}) => Slot' = Slot
     /\ (Slot' = Slot /\ _portia_instance # None)
          => CacheHit(_tools, _tools', _portia_instance')]_vars

\* a client is bound while one request ended with a fault of its execution
\* and another was refused in its resolve step
C25_Witness ==
  /\ _portia_instance # None /\ _tools = {"a"}
  /\ \E r, o \in Clients :
       /\ pc[r] = "faulted" /\ did[r].built
       /\ pc[o] \in {"rejected", "error"} /\ raised[o] # None /\ ~did[o].built


\* lists l1 and l2 hold the same distinct identifiers
SameIdentifiers(l1, l2) == Range(l1) = Range(l2)
\* one list for every set of identifiers: the identifiers of l, each once
Canonical(l) == ListOfSet(Range(l))
\* the outcomes of the SDK's calls that the step of request r can have had
SdkOutcomeFits(r, sdk) ==
  CASE sdk = "ok" -> raised'[r] = None \/ IsInvalidTools(raised'[r])
    [] sdk = "fetch_raises" ->
         ~did'[r].fetched \/ (raised'[r] # None /\ ~IsInvalidTools(raised'[r]))
    [] OTHER -> ~did'[r].fetched \/ raised'[r] # None

\* C26: a POST /run whose tools list repeats an identifier or lists the
\* identifiers in another order does exactly what a POST /run with the list
\* of its distinct identifiers does (same client, same slot, same error and
\* response), so requests whose lists hold the same identifiers are accepted
\* or rejected alike; and after it resolved, a request with any list of the
\* same identifiers is a cache hit: it fetches and builds nothing (it
\* succeeds even while the SDK's calls would raise), returns the client the
\* first request got and leaves the slot as it is.
C26_SetSemantics ==
  [][\A r \in Reqs : Resolved(r) =>
       \A sdk \in SdkOutcomes : SdkOutcomeFits(r, sdk) =>
         \A tools \in ToolLists, q \in Queries :
           (tools # Canonical(tools) /\ PostRun(r, tools, q, sdk)) =>
             /\ Canonical(tools) \in ToolLists
             /\ PostRun(r, Canonical(tools), q, sdk)
             /\ (pc'[r] = "queued" /\ sdk = "ok") =>
                  \A other \in ToolLists : SameIdentifiers(tools, other) =>
                    \E again \in {GetPortiaInstance(SetOfList(other), _tools',
                                                    _portia_instance', registry',
                                                    FreshRef', FALSE, FALSE)} :
                      /\ again.exc = None
                      /\ ~again.fetched /\ ~again.built
                      /\ again.ret = local'[r]
                      /\ again.newTools = _tools'
                      /\ again.newInst = _portia_instance']_vars

\* a request for two identifiers was served from the cache, which is bound to
\* the set of the two; the lists <<"a", "b">> and <<"b", "a">> both ask for it
C26_Witness ==
  /\ _tools = {"a", "b"} /\ _portia_instance # None
  /\ SameIdentifiers(<<"a", "b">>, <<"b", "a">>)
  /\ {<<"a", "b">>, <<"b", "a">>} \subseteq ToolLists
  /\ \E r \in Reqs :
       /\ pc[r] = "queued" /\ ~did[r].built /\ local[r] = _portia_instance
       /\ CacheHit(SetOfList(<<"b", "a">>), _tools, _portia_instance)
       /\ CacheHit(SetOfList(<<"a", "b">>), _tools, _portia_instance)
====
